---- MODULE Spec2Model ----
(***************************************************************************)
(* The drag and drop event lifecycle of pragmatic-drag-and-drop, as laid   *)
(* down in the core package's events page: the order in which one event    *)
(* reaches the drag source, the drop targets and the monitors, the         *)
(* location history (current / previous) every event carries, the derived  *)
(* onDragEnter / onDragLeave callbacks, the animation-frame throttling of  *)
(* onDrag, and the ways a drag ends.  A second, small specification covers *)
(* the keyboard sensor exercised by prevent-keyboard-scroll.spec.          *)
(***************************************************************************)
EXTENDS Integers, Sequences, FiniteSets, TLC

\* ------------------------------------------------------------------ bounds
\* the deepest drop target hierarchy a pointer is ever over
MaxDepth == 2
\* native drag events that may arrive between two animation frames
MaxPending == 2
\* key presses recorded by the keyboard specification
MaxKeys == 3

\* ------------------------------------------------------------- vocabulary
\* dropTarget(A) .. dropTarget(D) of the onDropTargetChange scenarios
Targets == {"A", "B", "C", "D"}
\* monitors, named by creation
MonitorIds == {"m1", "m2", "m3"}
\* the one draggable of a drag
SourceId == "draggable"
\* Input: a user's input at a point in time (only its identity matters here)
Inputs == {"p1", "p2"}
\* the two kinds of drag source: started in the window, or entering it
Adapters == {"element", "external"}

PrimaryEvents ==
    {"onGenerateDragPreview", "onDragStart", "onDrag", "onDropTargetChange", "onDrop"}
DerivedEvents == {"onDragEnter", "onDragLeave"}

Range(s) == {s[k] : k \in 1..Len(s)}
NoDup(s) == \A j, k \in 1..Len(s) : j # k => s[j] # s[k]

\* DragLocation.dropTargets: a bubble ordered (innermost upwards) list of
\* active drop targets; an element is in it at most once
Hierarchies ==
    {h \in UNION {[1..n -> Targets] : n \in 0..MaxDepth} : NoDup(h)}

\* Orders in which the listeners may have been created.  The first is the
\* order of the "Event ordering" example: monitor, draggable, drop target.
RegistrationOrders ==
    { <<"m1", "draggable", "A", "B", "m3", "C", "D", "m2">>,
      <<"D", "C", "m2", "B", "m3", "A", "m1", "draggable">> }

\* no event has been dispatched yet in this drag
NoPass == <<"none">>

VARIABLES
    registry,      \* the listeners, in the order they were created
    phase,         \* "idle", "preview" (preview generated), "dragging"
    adapter,       \* the kind of drag source of the drag
    current,       \* DragLocationHistory.current: [input, dropTargets]
    previous,      \* DragLocationHistory.previous.dropTargets
    dragScheduled, \* an onDrag is waiting for the next animation frame
    log,           \* the passes dispatched by the last step, in order
    dispatched,    \* current.dropTargets of the pass before those in log
    nativeInputs,  \* inputs of the native drag events of the frame's window
    lastAction,    \* the step taken last
    kbDragging,    \* keyboard sensor: an item is lifted
    keyLog,        \* keyboard sensor: the keydown events handled so far
    unbound,       \* the listeners removed by the last step
    squareState,   \* tutorial: each Square's state
    isDraggedOver, \* tutorial: each Square's isDraggedOver (first Square)
    pieceDragging, \* tutorial: each Piece's dragging
    pieces,        \* tutorial: the Chessboard's pieces, piece -> square
    dragged,       \* tutorial: the piece the drag lifted
    canDropGuard   \* tutorial: the Squares are registered with canDrop

dragVars ==
    <<registry, phase, adapter, current, previous, dragScheduled, log,
      dispatched, nativeInputs, lastAction>>
kbVars == <<kbDragging, keyLog>>
tutorialVars ==
    <<squareState, isDraggedOver, pieceDragging, pieces, dragged, canDropGuard>>
appVars == <<unbound, tutorialVars>>
vars == <<dragVars, kbVars, appVars>>


\* ------------------------------------------------------ one dispatch pass
IsMonitor(l) == l \in MonitorIds

Call(l, cb) == [listener |-> l, callback |-> cb]

\* 1. drag source (e.g. draggable) if relevant: an external drag has no
\* draggable in the page
SourceCalls(a, event) ==
    IF a = "element" /\ SourceId \in Range(registry)
    THEN <<Call(SourceId, event)>>
    ELSE <<>>

\* the current drop targets that were not drop targets before
NewTargets(prev, cur) == SelectSeq(cur, LAMBDA t : t \notin Range(prev))

ChangeTargetsNewFirst(prev, cur) == NewTargets(prev, cur) \o prev

\* onDropTargetChange: all previous drop targets in bubble order, then any
\* new current drop targets in bubble order
ChangeTargets(prev, cur) == prev \o NewTargets(prev, cur)

EventTargetsInnermostOnly(event, prev, cur) ==
    IF event = "onDropTargetChange" THEN ChangeTargets(prev, cur)
    ELSE SubSeq(cur, 1, IF cur = <<>> THEN 0 ELSE 1)

\* 2. the drop targets an event is dispatched to, in dispatch order
EventTargets(event, prev, cur) ==
    IF event = "onDropTargetChange" THEN ChangeTargets(prev, cur) ELSE cur

DerivedCallsEnterAll(event, t, prev, cur) ==
    IF event # "onDropTargetChange" THEN <<>>
    ELSE IF t \in Range(cur) THEN <<Call(t, "onDragEnter")>>
    ELSE <<Call(t, "onDragLeave")>>

\* onDragEnter and onDragLeave travel along side the bubbling of
\* onDropTargetChange: a target being exited gets onDragLeave, a target
\* being entered gets onDragEnter
DerivedCalls(event, t, prev, cur) ==
    IF event # "onDropTargetChange" THEN <<>>
    ELSE IF t \in Range(prev) /\ t \notin Range(cur) THEN <<Call(t, "onDragLeave")>>
    ELSE IF t \in Range(cur) /\ t \notin Range(prev) THEN <<Call(t, "onDragEnter")>>
    ELSE <<>>

RECURSIVE TargetCallsOver(_, _, _, _)
TargetCallsOver(ts, event, prev, cur) ==
    IF ts = <<>> THEN <<>>
    ELSE <<Call(Head(ts), event)>> \o DerivedCalls(event, Head(ts), prev, cur)
            \o TargetCallsOver(Tail(ts), event, prev, cur)

TargetCalls(event, prev, cur) ==
    TargetCallsOver(EventTargets(event, prev, cur), event, prev, cur)

Reverse(s) == [k \in 1..Len(s) |-> s[Len(s) + 1 - k]]

MonitorCallsNewestFirst(event) ==
    LET ms == Reverse(SelectSeq(registry, IsMonitor))
    IN  [k \in 1..Len(ms) |-> Call(ms[k], event)]

\* 3. monitors (in the order that they were created)
MonitorCalls(event) ==
    LET ms == SelectSeq(registry, IsMonitor)
    IN  [k \in 1..Len(ms) |-> Call(ms[k], event)]

\* One event flowing through the system: its payload's location and the
\* listener callbacks it runs, in order
Dispatch(a, event, cur, prev, input) ==
    [ event    |-> event,
      current  |-> cur,
      previous |-> prev,
      input    |-> input,
      calls    |-> SourceCalls(a, event) \o TargetCalls(event, prev, cur)
                      \o MonitorCalls(event) ]

\* The passes `ps` are dispatched by this step; `dispatched` remembers what
\* current was in the event dispatched before them in the same drag
Emit(ps) ==
    /\ log' = ps
    /\ dispatched' = IF log # <<>> THEN log[Len(log)].current ELSE dispatched


\* ------------------------------------------------------ the tutorial board
\* Four squares of the board, each with its coordinate [row, column]: the
\* king's square, a square next to it, the pawn's square, the square ahead
\* of the pawn
Squares == Targets
Coord == [A |-> <<3, 2>>, B |-> <<2, 2>>, C |-> <<1, 6>>, D |-> <<2, 6>>]
PieceTypes == {"king", "pawn"}
InitialPieces == [king |-> "A", pawn |-> "C"]
HoveredState == {"idle", "validMove", "invalidMove"}

Abs(n) == IF n < 0 THEN -n ELSE n

\* canMove(start, destination, pieceType, pieces): the destination is free
\* and the piece type reaches it from the start
CanMove(start, destination, pieceType, ps) ==
    LET rowDist == Coord[start][1] - Coord[destination][1]
        colDist == Coord[start][2] - Coord[destination][2]
    IN  /\ \A p \in PieceTypes : ps[p] # destination
        /\ IF pieceType = "king"
           THEN Abs(rowDist) <= 1 /\ Abs(colDist) <= 1
           ELSE colDist = 0 /\ rowDist = -1

\* canDrop of a Square: not the square the dragged piece comes from
CanDrop(square, sourceLocation) == square # sourceLocation

\* -------------------------------------------------------------- the drag
TypeOK ==
    /\ \E o \in RegistrationOrders :
         registry = SelectSeq(o, LAMBDA l : l \in Range(registry))
    /\ phase \in {"idle", "preview", "dragging"}
    /\ adapter \in Adapters
    /\ current \in [input : Inputs, dropTargets : Hierarchies]
    /\ previous \in Hierarchies
    /\ dragScheduled \in BOOLEAN
    /\ Len(log) \in 0..2
    /\ dispatched \in Hierarchies \cup {NoPass}
    /\ Len(nativeInputs) \in 0..MaxPending
    /\ kbDragging \in BOOLEAN
    /\ Len(keyLog) \in 0..MaxKeys
    /\ unbound \subseteq Targets \cup MonitorIds \cup {SourceId}
    /\ squareState \in [Squares -> HoveredState]
    /\ isDraggedOver \in [Squares -> BOOLEAN]
    /\ pieceDragging \in [PieceTypes -> BOOLEAN]
    /\ pieces \in [PieceTypes -> Squares]
    /\ dragged \in PieceTypes
    /\ canDropGuard \in BOOLEAN

\* The drag, the keyboard sensor and the rendered board before any event
InitListeners ==
    /\ registry \in RegistrationOrders
    /\ phase = "idle"
    /\ adapter = "element"
    /\ current = [input |-> "p1", dropTargets |-> <<>>]
    /\ previous = <<>>
    /\ dragScheduled = FALSE
    /\ log = <<>>
    /\ dispatched = NoPass
    /\ nativeInputs = <<>>
    /\ lastAction = "init"
    /\ kbDragging = FALSE
    /\ keyLog = <<>>
    /\ unbound = {}
    /\ squareState = [s \in Squares |-> "idle"]
    /\ isDraggedOver = [s \in Squares |-> FALSE]
    /\ pieceDragging = [p \in PieceTypes |-> FALSE]
    /\ pieces = InitialPieces
    /\ dragged = "king"

\* The Squares as first registered: without canDrop
Init == InitListeners /\ canDropGuard = FALSE

StartPreviousIsCurrent(h) == h

\* location.previous of onGenerateDragPreview and onDragStart: both get the
\* same values, and previous is [] in onDragStart
StartPrevious(h) == <<>>

\* A drag is about to start: the drag source sits inside the drop targets h
\* (an external entity enters the window over them).  onGenerateDragPreview.
Lift(a, h, i) ==
    /\ phase = "idle"
    /\ adapter' = a
    /\ current' = [input |-> i, dropTargets |-> h]
    /\ previous' = StartPrevious(h)
    /\ phase' = "preview"
    /\ log' = <<Dispatch(a, "onGenerateDragPreview", h, StartPrevious(h), i)>>
    /\ dispatched' = NoPass
    /\ nativeInputs' = <<>>
    /\ dragScheduled' = FALSE
    /\ lastAction' = "Lift"
    /\ UNCHANGED <<registry, kbVars>>

NextPreviousStale(pass) == pass.previous

\* previous points to what current was in the last dispatched event
NextPrevious(pass) == pass.current

\* Something has started dragging: onDragStart, with the location of
\* onGenerateDragPreview
DragStart ==
    /\ phase = "preview"
    /\ LET pass == Dispatch(adapter, "onDragStart", current.dropTargets, previous, current.input)
       IN  /\ Emit(<<pass>>)
           /\ previous' = NextPrevious(pass)
    /\ phase' = "dragging"
    /\ lastAction' = "DragStart"
    /\ UNCHANGED <<registry, adapter, current, dragScheduled, nativeInputs, kbVars>>

\* A native drag event with input i while the user is over the hierarchy h.
\* A change of the hierarchy is published at once (onDropTargetChange);
\* onDrag is throttled: it waits for the animation frame.
NativeDrag(h, i) ==
    /\ phase = "dragging"
    /\ dragScheduled => Len(nativeInputs) < MaxPending
    /\ current' = [input |-> i, dropTargets |-> h]
    /\ IF h # current.dropTargets
       THEN LET pass == Dispatch(adapter, "onDropTargetChange", h, previous, i)
            IN  /\ Emit(<<pass>>)
                /\ previous' = NextPrevious(pass)
       ELSE /\ Emit(<<>>)
            /\ UNCHANGED previous
    /\ nativeInputs' = IF dragScheduled THEN Append(nativeInputs, i) ELSE <<i>>
    /\ dragScheduled' = TRUE
    /\ lastAction' = "NativeDrag"
    /\ UNCHANGED <<registry, adapter, phase, kbVars>>

FrameInputOldest == IF nativeInputs # <<>> THEN nativeInputs[1] ELSE current.input

\* onDrag carries the latest details about the drag and user input
FrameInput == current.input

\* The animation frame fires: the throttled onDrag is dispatched to the
\* drag source, the current drop targets and the monitors
Frame ==
    /\ dragScheduled
    /\ LET pass == Dispatch(adapter, "onDrag", current.dropTargets, previous, FrameInput)
       IN  /\ Emit(<<pass>>)
           /\ previous' = NextPrevious(pass)
    /\ dragScheduled' = FALSE
    /\ lastAction' = "Frame"
    /\ UNCHANGED <<registry, adapter, phase, current, nativeInputs, kbVars>>

EndDragKeepsFrame ==
    /\ phase' = "idle"
    /\ UNCHANGED dragScheduled
    /\ nativeInputs' = <<>>

\* the drag operation has finished: no throttled onDrag is left waiting
EndDrag ==
    /\ phase' = "idle"
    /\ dragScheduled' = FALSE
    /\ nativeInputs' = <<>>

\* The user drops (on the drop targets being dragged over, or on none):
\* onDrop on the source, on all those in location.current.dropTargets, on
\* the monitors
Drop ==
    /\ phase = "dragging"
    /\ LET pass == Dispatch(adapter, "onDrop", current.dropTargets, previous, current.input)
       IN  /\ Emit(<<pass>>)
           /\ previous' = NextPrevious(pass)
    /\ EndDrag
    /\ lastAction' = "Drop"
    /\ UNCHANGED <<registry, adapter, current, kbVars>>

CancelPassesNoClear ==
    <<Dispatch(adapter, "onDrop", current.dropTargets, previous, current.input)>>

\* Cancelling: the exiting current drop targets are cleared with an
\* onDropTargetChange (phase 1), then onDrop (phase 2)
CancelPasses ==
    LET clear == Dispatch(adapter, "onDropTargetChange", <<>>, previous, current.input)
    IN  IF current.dropTargets # <<>>
        THEN <<clear, Dispatch(adapter, "onDrop", <<>>, NextPrevious(clear), current.input)>>
        ELSE <<Dispatch(adapter, "onDrop", <<>>, previous, current.input)>>

Finish(name) ==
    /\ phase = "dragging"
    /\ LET ps == CancelPasses
       IN  /\ Emit(ps)
           /\ previous' = NextPrevious(ps[Len(ps)])
    /\ current' = [current EXCEPT !.dropTargets = <<>>]
    /\ EndDrag
    /\ lastAction' = name
    /\ UNCHANGED <<registry, adapter, kbVars>>

\* The user cancels the drag
Cancel == Finish("Cancel")

\* A drag that started outside the window finishes when the user leaves
\* the window
LeaveWindow ==
    /\ adapter = "external"
    /\ Finish("LeaveWindow")

\* ------------------------------------------------- the keyboard sensor
\* const keys = ['PageUp', 'PageDown', 'Home', 'End']
ScrollKeys == {"PageUp", "PageDown", "Home", "End"}
\* space lifts and drops, escape cancels, the arrows move the lifted item
LiftKey == " "
CancelKey == "Escape"
MoveKeys == {"ArrowUp", "ArrowDown"}
\* the keys of the model: those the sensor handles and one it does not
Keys == ScrollKeys \cup MoveKeys \cup {LiftKey, CancelKey, "a"}

DefaultPreventedUnlessScroll(k, dragging) ==
    IF dragging THEN k \in MoveKeys \cup {LiftKey, CancelKey} ELSE k = LiftKey

\* does the sensor's keydown handler call event.preventDefault()
DefaultPrevented(k, dragging) ==
    IF dragging
    THEN k \in ScrollKeys \cup MoveKeys \cup {LiftKey, CancelKey}
    ELSE k = LiftKey

\* is an item dragging once the sensor has handled the keydown
DraggingAfter(k, dragging) ==
    IF dragging THEN k \notin {LiftKey, CancelKey} ELSE k = LiftKey

\* fireEvent(handle, createEvent.keyDown(handle, { key }))
KeyDown(k) ==
    /\ Len(keyLog) < MaxKeys
    /\ kbDragging' = DraggingAfter(k, kbDragging)
    /\ keyLog' = Append(keyLog, [ key              |-> k,
                                  wasDragging      |-> kbDragging,
                                  defaultPrevented |-> DefaultPrevented(k, kbDragging),
                                  isDragging       |-> DraggingAfter(k, kbDragging) ])
    /\ UNCHANGED dragVars

NextKeyboard == \E k \in Keys : KeyDown(k) /\ UNCHANGED appVars

SpecKeyboard == Init /\ [][NextKeyboard]_vars

\* The lifecycle with every hierarchy the bounds allow; the pointer input
\* is held at one value, so that only the hierarchies vary
Next ==
    \/ \E a \in Adapters, h \in Hierarchies : Lift(a, h, "p1") /\ UNCHANGED appVars
    \/ DragStart /\ UNCHANGED appVars
    \/ \E h \in Hierarchies : NativeDrag(h, "p1") /\ UNCHANGED appVars
    \/ Frame /\ UNCHANGED appVars
    \/ Drop /\ UNCHANGED appVars
    \/ Cancel /\ UNCHANGED appVars
    \/ LeaveWindow /\ UNCHANGED appVars

Spec == Init /\ [][Next]_vars

\* The hierarchies of the throttling specification: none, one, nested
ThrottleHierarchies == {<<>>, <<"A">>, <<"B", "A">>}

\* The lifecycle with every input, over a few hierarchies
NextThrottle ==
    \/ \E a \in Adapters, h \in ThrottleHierarchies, i \in Inputs : Lift(a, h, i) /\ UNCHANGED appVars
    \/ DragStart /\ UNCHANGED appVars
    \/ \E h \in ThrottleHierarchies, i \in Inputs : NativeDrag(h, i) /\ UNCHANGED appVars
    \/ Frame /\ UNCHANGED appVars
    \/ Drop /\ UNCHANGED appVars
    \/ Cancel /\ UNCHANGED appVars
    \/ LeaveWindow /\ UNCHANGED appVars

SpecThrottle == Init /\ [][NextThrottle]_vars


\* ---------------------------------------------------- reading the passes
\* the passes of the last step
PassIdx == 1..Len(log)
\* the calls of a pass that are the event itself (not derived from it)
PrimaryOf(pass) == SelectSeq(pass.calls, LAMBDA c : c.callback = pass.event)
\* the listeners the event itself reached, in the order it reached them
ReachedBy(pass) ==
    LET pc == PrimaryOf(pass) IN [k \in 1..Len(pc) |-> pc[k].listener]
\* the drop targets among them
TargetsReached(pass) == SelectSeq(ReachedBy(pass), LAMBDA l : l \in Targets)
\* the monitors among them
MonitorsReached(pass) == SelectSeq(ReachedBy(pass), LAMBDA l : l \in MonitorIds)
\* where x stands in the duplicate-free sequence s (0: nowhere)
Pos(s, x) == IF x \in Range(s) THEN CHOOSE k \in 1..Len(s) : s[k] = x ELSE 0
\* x comes before y in s
Before(s, x, y) == Pos(s, x) > 0 /\ Pos(s, y) > 0 /\ Pos(s, x) < Pos(s, y)
\* the monitors in the order they were created
CreatedMonitors == SelectSeq(registry, LAMBDA l : l \in MonitorIds)
\* the drag source, when the drag has a draggable
SourceOf(pass) == IF adapter = "element" THEN <<SourceId>> ELSE <<>>
\* source first, then the drop targets, then every monitor
SourceTargetsMonitors(pass) ==
    ReachedBy(pass) = SourceOf(pass) \o TargetsReached(pass) \o MonitorsReached(pass)

\* C1: one onDropTargetChange pass from the previous hierarchy P to the new
\* hierarchy N reaches the drag source first, then every target of P in P's
\* bubble order, then the targets of N that are not in P in N's bubble
\* order, then every monitor; each of them exactly once.
C1_ChangeOrder ==
    \A n \in PassIdx :
        log[n].event = "onDropTargetChange" =>
            LET P  == log[n].previous
                N  == log[n].current
                ts == TargetsReached(log[n])
            IN  /\ SourceTargetsMonitors(log[n])
                /\ NoDup(ts)
                /\ Range(ts) = Range(P) \cup Range(N)
                /\ \A x, y \in Range(ts) :
                      /\ (x \in Range(P) /\ y \notin Range(P)) => Before(ts, x, y)
                      /\ Before(P, x, y) => Before(ts, x, y)
                      /\ (x \notin Range(P) /\ y \notin Range(P) /\ Before(N, x, y))
                            => Before(ts, x, y)
                /\ NoDup(MonitorsReached(log[n]))
                /\ Range(MonitorsReached(log[n])) = Range(CreatedMonitors)

\* [B, A] -> [D, C] has been dispatched: draggable, B, A, D, C, monitors
C1_Witness ==
    \E n \in PassIdx :
        /\ log[n].event = "onDropTargetChange"
        /\ log[n].previous = <<"B", "A">>
        /\ log[n].current = <<"D", "C">>
        /\ ReachedBy(log[n]) = <<SourceId, "B", "A", "D", "C">> \o CreatedMonitors

DerivedOn(pass, t, cb) == Call(t, cb) \in Range(pass.calls)

\* C3: in an onDropTargetChange pass from P to N, onDragLeave runs on a
\* target iff it is in P and not in N, onDragEnter iff it is in N and not in
\* P; each derived callback runs right after that target's
\* onDropTargetChange; no derived callback runs in a pass of another event.
C3_DerivedEvents ==
    \A n \in PassIdx :
        LET calls == log[n].calls
            P == Range(log[n].previous)
            N == Range(log[n].current)
        IN  /\ (log[n].event = "onDropTargetChange" =>
                  /\ \A t \in Targets :
                        /\ DerivedOn(log[n], t, "onDragLeave") <=> (t \in P /\ t \notin N)
                        /\ DerivedOn(log[n], t, "onDragEnter") <=> (t \in N /\ t \notin P)
                  /\ \A k \in 1..Len(calls) :
                        calls[k].callback \in DerivedEvents =>
                            /\ k > 1
                            /\ calls[k - 1] = Call(calls[k].listener, "onDropTargetChange")
                            /\ \A j \in 1..Len(calls) : calls[j] = calls[k] => j = k)
            /\ (log[n].event # "onDropTargetChange" =>
                  \A k \in 1..Len(calls) : calls[k].callback \notin DerivedEvents)

\* [B, A] -> [C, A]: B is left, A gets neither, C is entered
C3_Witness ==
    \E n \in PassIdx :
        /\ adapter = "element"
        /\ log[n].previous = <<"B", "A">>
        /\ log[n].current = <<"C", "A">>
        /\ SubSeq(log[n].calls, 1, 6) =
              << Call(SourceId, "onDropTargetChange"),
                 Call("B", "onDropTargetChange"), Call("B", "onDragLeave"),
                 Call("A", "onDropTargetChange"),
                 Call("C", "onDropTargetChange"), Call("C", "onDragEnter") >>

\* C4: cancelling while over a non-empty hierarchy dispatches exactly two
\* passes: onDropTargetChange to the empty hierarchy (source, each exited
\* target in bubble order with its onDragLeave, monitors), then an onDrop
\* whose current hierarchy is empty and that reaches only the source and
\* the monitors.
C4_CancelClearsThenDrops ==
    (lastAction = "Cancel" /\ dispatched # <<>>) =>
        /\ Len(log) = 2
        /\ log[1].event = "onDropTargetChange"
        /\ log[1].previous = dispatched
        /\ log[1].current = <<>>
        /\ ReachedBy(log[1]) = SourceOf(log[1]) \o dispatched \o CreatedMonitors
        /\ \A t \in Range(dispatched) : DerivedOn(log[1], t, "onDragLeave")
        /\ log[2].event = "onDrop"
        /\ log[2].current = <<>>
        /\ ReachedBy(log[2]) = SourceOf(log[2]) \o CreatedMonitors
        /\ \A n \in 1..2 : \A k \in 1..Len(log[n].calls) :
              log[n].calls[k].listener \in Targets => log[n].calls[k].callback # "onDrop"

\* the drag over [B, A] has been cancelled
C4_Witness ==
    /\ lastAction = "Cancel"
    /\ dispatched = <<"B", "A">>
    /\ Len(log) = 2
    /\ log[1].calls[2] = Call("B", "onDropTargetChange")

\* C5: onDrop reaches the source, then exactly the drop targets of its
\* location.current.dropTargets in bubble order, then the monitors; and
\* that hierarchy is the one the drag finished over.
C5_DropReachesCurrent ==
    \A n \in PassIdx :
        log[n].event = "onDrop" =>
            /\ ReachedBy(log[n]) = SourceOf(log[n]) \o log[n].current \o CreatedMonitors
            /\ log[n].current = current.dropTargets
            /\ (lastAction = "Drop" => log[n].current = dispatched)

\* a drop on [B, A]
C5_Witness ==
    /\ lastAction = "Drop"
    /\ log[1].event = "onDrop"
    /\ dispatched = <<"B", "A">>
    /\ TargetsReached(log[1]) = <<"B", "A">>


\* the ways a drag finishes
FinishingActions == {"Drop", "Cancel", "LeaveWindow"}
\* the onDrop passes of the last step
DropPasses == {n \in PassIdx : log[n].event = "onDrop"}

\* a drag is in progress iff it has not been finished; the step that
\* finishes it, whichever it is, dispatches exactly one onDrop, as its last
\* pass; no step inside the drag dispatches onDrop
C6_DropEndsDrag ==
    /\ phase # "idle" => DropPasses = {}
    /\ phase = "idle" <=> lastAction \in FinishingActions \cup {"init"}
    /\ lastAction \in FinishingActions => DropPasses = {Len(log)}

\* once onDrop has been dispatched, a step dispatches nothing of that drag:
\* it leaves the log alone or starts a new drag with onGenerateDragPreview
C6_NothingAfterDrop ==
    (lastAction \in FinishingActions) =>
        \/ UNCHANGED log
        \/ /\ lastAction' = "Lift"
           /\ \A n \in 1..Len(log') : log'[n].event = "onGenerateDragPreview"

\* C6: every drag that has started ends with exactly one onDrop pass,
\* whichever way it finishes (drop on targets, drop on none, cancel, an
\* external drag leaving the window), and onDrop is its final event: no
\* onDrag, onDropTargetChange or second onDrop of the drag follows it.
C6_ExactlyOneDropLast == [] C6_DropEndsDrag /\ [][C6_NothingAfterDrop]_vars

\* an external drag over [A] has left the window: the drag is over and
\* onDrop was its last pass
C6_Witness ==
    /\ lastAction = "LeaveWindow"
    /\ phase = "idle"
    /\ dispatched = <<"A">>
    /\ log[Len(log)].event = "onDrop"

\* the passes of the last step that open a drag
StartPasses ==
    {n \in PassIdx : log[n].event \in {"onGenerateDragPreview", "onDragStart"}}

\* C7 as stated: in every onGenerateDragPreview and onDragStart,
\* location.previous.dropTargets equals location.current.dropTargets.
C7_StartPreviousIsCurrent ==
    \A n \in StartPasses : log[n].previous = log[n].current

\* C7 amended: onGenerateDragPreview and onDragStart carry the same
\* location: current is the hierarchy the drag starts in and previous is
\* empty in both, so previous equals current exactly when the drag starts
\* outside every drop target.
C7_StartLocation ==
    \A n \in StartPasses :
        /\ log[n].previous = <<>>
        /\ log[n].current = current.dropTargets
        /\ (log[n].event = "onDragStart" => log[n].current = dispatched)
        /\ (log[n].previous = log[n].current <=> current.dropTargets = <<>>)

\* onDragStart of a drag that starts inside [B, A]
C7_Witness ==
    /\ lastAction = "DragStart"
    /\ log[1].event = "onDragStart"
    /\ log[1].current = <<"B", "A">>
    /\ log[1].previous = <<>>
    /\ dispatched = <<"B", "A">>

\* C8: in every event dispatched after onDragStart (onDrag,
\* onDropTargetChange, onDrop), location.previous.dropTargets is
\* location.current.dropTargets of the event dispatched just before it.
C8_PreviousIsLastCurrent ==
    \A n \in PassIdx :
        log[n].event \in {"onDrag", "onDropTargetChange", "onDrop"} =>
            /\ n = 1 => (dispatched # NoPass /\ log[n].previous = dispatched)
            /\ n > 1 => log[n].previous = log[n - 1].current

\* a cancel over [B, A] after a throttled move: the change event's previous
\* is what current was, and the drop's previous is the change's current
C8_Witness ==
    /\ lastAction = "Cancel"
    /\ Len(log) = 2
    /\ dispatched = <<"B", "A">>
    /\ log[1].previous = <<"B", "A">>
    /\ log[2].previous = <<>>
    /\ log[2].previous = log[1].current

\* when the frame fires, exactly one onDrag is dispatched, with the input
\* of the latest native drag event of the window; onDrag is dispatched by
\* nothing else
C9_FrameDeliversLatest ==
    /\ lastAction = "Frame" =>
          /\ Len(log) = 1
          /\ log[1].event = "onDrag"
          /\ nativeInputs # <<>>
          /\ log[1].input = nativeInputs[Len(nativeInputs)]
    /\ \A n \in PassIdx : log[n].event = "onDrag" => lastAction = "Frame"

\* a frame that has fired does not fire again before a native drag event
C9_OnePerFrame == (lastAction = "Frame") => (lastAction' # "Frame")

\* C9: onDrag is throttled per animation frame: however many native drag
\* events arrive between two frames, at most one onDrag pass is dispatched
\* when the frame fires, with the most recent pending input; the earlier
\* pending inputs of the window are never delivered.
C9_Throttled == [] C9_FrameDeliversLatest /\ [][C9_OnePerFrame]_vars

\* a full window of native drag events with differing inputs, then the
\* frame: the one onDrag carries the last input
C9_Witness ==
    /\ lastAction = "Frame"
    /\ Len(nativeInputs) = MaxPending
    /\ nativeInputs[1] # nativeInputs[MaxPending]
    /\ log[1].input = nativeInputs[MaxPending]

CombinedHandle == {"m2", SourceId, "A"}

\* The deregistration handles in use: three of single listeners and the
\* combined one
Handles == {{"m3"}, {"m1"}, {"B"}, CombinedHandle}

\* Removal by moving the last entry into the place of the removed one
RECURSIVE WithoutBySwap(_, _)
WithoutBySwap(reg, S) ==
    IF \A k \in 1..Len(reg) : reg[k] \notin S
    THEN reg
    ELSE LET i == CHOOSE k \in 1..Len(reg) :
                      reg[k] \in S /\ \A j \in 1..(k - 1) : reg[j] \notin S
             n == Len(reg)
             moved == [k \in 1..(n - 1) |-> IF k = i THEN reg[n] ELSE reg[k]]
         IN  WithoutBySwap(moved, S)

\* The registry without the listeners of S, the others in their order
Without(reg, S) == SelectSeq(reg, LAMBDA l : l \notin S)

\* No drop target of S is one the drag is over or has just left
StaysOver(S) == S \cap (Range(current.dropTargets) \cup Range(previous)) = {}

\* A deregistration handle is invoked between two events. During a drag, a
\* drop target the drag is over, or has just left, is not removed.
Unbind(S) ==
    /\ S \cap Range(registry) # {}
    /\ phase # "idle" => StaysOver(S)
    /\ registry' = Without(registry, S)
    /\ unbound' = S \cap Range(registry)
    /\ Emit(<<>>)
    /\ lastAction' = "Unbind"
    /\ UNCHANGED <<phase, adapter, current, previous, dragScheduled,
                   nativeInputs, kbVars, tutorialVars>>

\* The hierarchies of the registry specification, and those of them the
\* registered drop targets form
RegistryHierarchies == ThrottleHierarchies \cup {<<"B">>}
RegisteredHierarchies ==
    {h \in RegistryHierarchies : Range(h) \subseteq Range(registry)}

\* The lifecycle while listeners are removed; an element drag needs its
\* draggable registered to start
NextRegistry ==
    \/ \E a \in Adapters, h \in RegisteredHierarchies :
          /\ a = "element" => SourceId \in Range(registry)
          /\ Lift(a, h, "p1")
          /\ UNCHANGED appVars
    \/ DragStart /\ UNCHANGED appVars
    \/ \E h \in RegisteredHierarchies : NativeDrag(h, "p1") /\ UNCHANGED appVars
    \/ Frame /\ UNCHANGED appVars
    \/ Drop /\ UNCHANGED appVars
    \/ Cancel /\ UNCHANGED appVars
    \/ LeaveWindow /\ UNCHANGED appVars
    \/ \E S \in Handles : Unbind(S)

SpecRegistry == Init /\ [][NextRegistry]_vars

\* The listeners a pass reaches are registered, its monitors are the
\* registered monitors in their order, and the registry is in the order
\* of creation
C11_RegisteredOnly ==
    /\ \E o \in RegistrationOrders :
          registry = SelectSeq(o, LAMBDA l : l \in Range(registry))
    /\ \A n \in PassIdx :
          /\ Range(ReachedBy(log[n])) \subseteq Range(registry)
          /\ MonitorsReached(log[n]) = SelectSeq(registry, IsMonitor)
          /\ (log[n].event # "onDropTargetChange"
                => TargetsReached(log[n]) = log[n].current)

\* The registry changes only when a handle is invoked, which removes the
\* listeners of the handle and no other, the rest keeping their order
C11_RemovesExactly ==
    registry' # registry =>
        /\ lastAction' = "Unbind"
        /\ unbound' # {}
        /\ Range(registry') = Range(registry) \ unbound'
        /\ \A x, y \in Range(registry') :
              Before(registry', x, y) <=> Before(registry, x, y)

Listeners(calls) == {calls[k].listener : k \in 1..Len(calls)}

\* The calls of a pass read from the registry while it runs: once the
\* listener by has invoked the handle S, the listeners of S are skipped
CallsMadeLive(calls, by, S) ==
    LET i == CHOOSE k \in 1..Len(calls) :
                 calls[k].listener = by /\ \A j \in 1..(k - 1) : calls[j].listener # by
    IN  SubSeq(calls, 1, i)
          \o SelectSeq(SubSeq(calls, i + 1, Len(calls)), LAMBDA c : c.listener \notin S)

\* The calls a pass makes when its listener by invokes the handle S: those
\* fixed when the pass began; the removal takes effect from the next event
CallsMade(calls, by, S) == calls

\* The pass, as it runs when by invokes S in it
Unbinding(pass, by, S) == [pass EXCEPT !.calls = CallsMade(pass.calls, by, S)]

\* The handle S removes a listener that is still to be called after by
RemovesLater(pass, by, S) ==
    /\ by \in Listeners(pass.calls)
    /\ by \notin S
    /\ S \cap Range(registry) # {}
    /\ CallsMadeLive(pass.calls, by, S) # pass.calls

\* The frame's onDrag, one of whose listeners invokes a handle
FrameUnbinding(by, S) ==
    /\ dragScheduled
    /\ StaysOver(S)
    /\ LET pass == Dispatch(adapter, "onDrag", current.dropTargets, previous, FrameInput)
       IN  /\ RemovesLater(pass, by, S)
           /\ Emit(<<Unbinding(pass, by, S)>>)
           /\ previous' = NextPrevious(pass)
    /\ registry' = Without(registry, S)
    /\ unbound' = S \cap Range(registry)
    /\ dragScheduled' = FALSE
    /\ lastAction' = "FrameUnbinding"
    /\ UNCHANGED <<adapter, phase, current, nativeInputs, kbVars, tutorialVars>>

\* The drop's onDrop, one of whose listeners invokes a handle
DropUnbinding(by, S) ==
    /\ phase = "dragging"
    /\ LET pass == Dispatch(adapter, "onDrop", current.dropTargets, previous, current.input)
       IN  /\ RemovesLater(pass, by, S)
           /\ Emit(<<Unbinding(pass, by, S)>>)
           /\ previous' = NextPrevious(pass)
    /\ registry' = Without(registry, S)
    /\ unbound' = S \cap Range(registry)
    /\ EndDrag
    /\ lastAction' = "DropUnbinding"
    /\ UNCHANGED <<adapter, current, kbVars, tutorialVars>>

AllListeners == Targets \cup MonitorIds \cup {SourceId}

\* The lifecycle with handles invoked between events and within passes
NextReentrant ==
    \/ \E a \in Adapters, h \in RegisteredHierarchies :
          /\ a = "element" => SourceId \in Range(registry)
          /\ Lift(a, h, "p1")
          /\ UNCHANGED appVars
    \/ DragStart /\ UNCHANGED appVars
    \/ \E h \in RegisteredHierarchies : NativeDrag(h, "p1") /\ UNCHANGED appVars
    \/ Frame /\ UNCHANGED appVars
    \/ Drop /\ UNCHANGED appVars
    \/ Cancel /\ UNCHANGED appVars
    \/ LeaveWindow /\ UNCHANGED appVars
    \/ \E S \in Handles : Unbind(S)
    \/ \E by \in AllListeners, S \in Handles : FrameUnbinding(by, S)
    \/ \E by \in AllListeners, S \in Handles : DropUnbinding(by, S)

SpecReentrant == Init /\ [][NextReentrant]_vars

UnbindingActions == {"FrameUnbinding", "DropUnbinding"}

\* The listeners an event reaches over the registry reg: the drag source
\* of an element drag, the current drop targets, the monitors in order
InOrder(pass, reg, a) ==
    (IF a = "element" /\ SourceId \in Range(reg) THEN <<SourceId>> ELSE <<>>)
      \o EventTargets(pass.event, pass.previous, pass.current)
      \o SelectSeq(reg, IsMonitor)

\* A pass in which a handle is invoked reaches the listeners registered
\* when it began, in the order of dispatch, the removed ones among them;
\* the registry loses them for the events after it
C12_PassKeepsListeners ==
    lastAction' \in UnbindingActions =>
        /\ Len(log') = 1
        /\ ReachedBy(log'[1]) = InOrder(log'[1], registry, adapter)
        /\ unbound' # {}
        /\ registry' = SelectSeq(registry, LAMBDA l : l \notin unbound')

\* Every pass of an event after the removal reaches registered listeners
\* only, in the order of dispatch; the passes of a step follow one another
\* whole, each one begun where the one before ended
C12_NextEventObserves ==
    /\ lastAction \notin UnbindingActions =>
          \A n \in PassIdx : ReachedBy(log[n]) = InOrder(log[n], registry, adapter)
    /\ \A n \in PassIdx : n > 1 => log[n].previous = log[n - 1].current

ChessboardMonitor == "m1"

\* What the board shows
Shown ==
    [squareState |-> squareState, isDraggedOver |-> isDraggedOver,
     pieceDragging |-> pieceDragging, pieces |-> pieces]

MonitorOnDropAnywhere(ps, p, pass) ==
    IF pass.current = <<>>
    THEN ps
    ELSE [ps EXCEPT ![p] = pass.current[1]]

\* onDrop of the Chessboard's monitor: the destination is the first of
\* location.current.dropTargets; without one nothing happens; the piece
\* moves there if canMove allows it
MonitorOnDrop(ps, p, pass) ==
    IF pass.current = <<>>
    THEN ps
    ELSE LET destination == pass.current[1]
         IN  IF CanMove(ps[p], destination, p, ps)
             THEN [ps EXCEPT ![p] = destination]
             ELSE ps

SquareOnDragLeaveKeeps(app, s) == app

\* onDragLeave of a Square
SquareOnDragLeave(app, s) ==
    [app EXCEPT !.squareState[s] = "idle", !.isDraggedOver[s] = FALSE]

\* onDrop of a Square
SquareOnDrop(app, s) ==
    [app EXCEPT !.squareState[s] = "idle", !.isDraggedOver[s] = FALSE]

\* onDragEnter of a Square; the source is the piece p
SquareOnDragEnter(app, s, p) ==
    [app EXCEPT !.isDraggedOver[s] = TRUE,
                !.squareState[s] =
                    IF CanMove(app.pieces[p], s, p, app.pieces)
                    THEN "validMove" ELSE "invalidMove"]

\* What one call of a pass does to the board, the piece p being dragged
OnCall(app, c, pass, p) ==
    IF c.listener = SourceId /\ c.callback = "onDragStart"
        THEN [app EXCEPT !.pieceDragging[p] = TRUE]
    ELSE IF c.listener = SourceId /\ c.callback = "onDrop"
        THEN [app EXCEPT !.pieceDragging[p] = FALSE]
    ELSE IF c.listener \in Squares /\ c.callback = "onDragEnter"
        THEN SquareOnDragEnter(app, c.listener, p)
    ELSE IF c.listener \in Squares /\ c.callback = "onDragLeave"
        THEN SquareOnDragLeave(app, c.listener)
    ELSE IF c.listener \in Squares /\ c.callback = "onDrop"
        THEN SquareOnDrop(app, c.listener)
    ELSE IF c.listener = ChessboardMonitor /\ c.callback = "onDrop"
        THEN [app EXCEPT !.pieces = MonitorOnDrop(app.pieces, p, pass)]
    ELSE app

RECURSIVE AfterCalls(_, _, _, _)
AfterCalls(app, calls, pass, p) ==
    IF calls = <<>>
    THEN app
    ELSE AfterCalls(OnCall(app, Head(calls), pass, p), Tail(calls), pass, p)

RECURSIVE AfterPasses(_, _, _)
AfterPasses(app, ps, p) ==
    IF ps = <<>>
    THEN app
    ELSE AfterPasses(AfterCalls(app, Head(ps).calls, Head(ps), p), Tail(ps), p)

\* The board after the calls of the step's passes, in their order
Rendered(p) ==
    LET app == AfterPasses(Shown, log', p)
    IN  /\ squareState' = app.squareState
        /\ isDraggedOver' = app.isDraggedOver
        /\ pieceDragging' = app.pieceDragging
        /\ pieces' = app.pieces

\* The listeners of the board react to a step of the drag under way
Reacts ==
    /\ Rendered(dragged)
    /\ UNCHANGED <<unbound, dragged, canDropGuard>>

\* A Square is a drop target of the drag of p unless its canDrop refuses
Droppable(s, p) == canDropGuard => CanDrop(s, pieces[p])

\* The pointer is over one Square of the board or over none
BoardHierarchies(p) == {<<>>} \cup {<<s>> : s \in {t \in Squares : Droppable(t, p)}}

\* A piece is lifted where it stands: inside its Square
StartHierarchy(p) == IF Droppable(pieces[p], p) THEN <<pieces[p]>> ELSE <<>>

TutorialLift(p) ==
    /\ dragged' = p
    /\ Lift("element", StartHierarchy(p), "p1")
    /\ Rendered(p)
    /\ UNCHANGED <<unbound, canDropGuard>>

NextTutorial ==
    \/ \E p \in PieceTypes : TutorialLift(p)
    \/ DragStart /\ Reacts
    \/ \E h \in BoardHierarchies(dragged) : NativeDrag(h, "p1") /\ Reacts
    \/ Frame /\ Reacts
    \/ Drop /\ Reacts
    \/ Cancel /\ Reacts

\* The Squares with or without canDrop
InitTutorial == InitListeners /\ canDropGuard \in BOOLEAN

SpecTutorial == InitTutorial /\ [][NextTutorial]_vars

\* C13: during a drag, after each pass, every Square being dragged over
\* (in location.current.dropTargets) is highlighted, the Square the piece
\* was lifted from included
C13_HighlightedWhileOver ==
    phase # "idle" =>
        \A s \in Range(current.dropTargets) : isDraggedOver[s]

\* C14: once no drag is in progress (after a drop on a Square, a drop on
\* none, or a cancel over a Square, whatever the Squares crossed), no Piece
\* is dragging and every Square is idle and not highlighted
C14_IdleAfterDrag ==
    phase = "idle" =>
        /\ \A p \in PieceTypes : ~pieceDragging[p]
        /\ \A s \in Squares : squareState[s] = "idle" /\ ~isDraggedOver[s]

\* A drag cancelled over a Square it had entered: the Square got
\* onDragLeave in the clearing pass, and the drag is over
C14_Witness ==
    /\ phase = "idle"
    /\ lastAction = "Cancel"
    /\ Len(log) = 2
    /\ \E s \in Squares \ {pieces[dragged]} :
          /\ log[1].previous = <<s>>
          /\ DerivedOn(log[1], s, "onDragLeave")

\* The pieces change only in a drop whose first current drop target is a
\* Square that canMove allows for the dragged piece, which moves there; a
\* cancel, and a drop on no drop target, leave the pieces as they are
C15_MovesOnlyOnValidDrop ==
    /\ pieces' # pieces =>
          /\ lastAction' = "Drop"
          /\ Len(log') = 1
          /\ log'[1].event = "onDrop"
          /\ log'[1].current # <<>>
          /\ LET destination == log'[1].current[1]
             IN  /\ destination \in Squares
                 /\ CanMove(pieces[dragged], destination, dragged, pieces)
                 /\ pieces' = [pieces EXCEPT ![dragged] = destination]
    /\ lastAction' = "Cancel" => pieces' = pieces
    /\ (lastAction' = "Drop" /\ current.dropTargets = <<>>) => pieces' = pieces

\* C15: with the Chessboard's monitor, a cancelled drag (even over squares)
\* and a drop outside every drop target never change the pieces; a piece
\* moves only in an onDrop whose innermost current drop target is a square
\* for which canMove is true
C15_ChessboardMoves == [][C15_MovesOnlyOnValidDrop]_vars

\* The king was moved by a drop, and a later drag was cancelled over a
\* Square
C15_Witness ==
    /\ pieces["king"] = "B"
    /\ lastAction = "Cancel"
    /\ Len(log) = 2
    /\ log[1].previous # <<>>
====
